---------------------------- MODULE Spec2Model ----------------------------
(***************************************************************************)
(* Model of the PGN to flat-buffer converter (src/src/main.rs).            *)
(*                                                                         *)
(* A character is a one-character string, a token is a sequence of         *)
(* characters, a movetext line is a sequence of tokens (the result of      *)
(* line.split(' ')).  Three specifications share the variables:            *)
(*   Spec       the main loop and the game framer (convert_next_game),     *)
(*   SpecLine   the token loop of parse_game_text over one movetext line,  *)
(*   SpecToken  one iteration of that loop on a token of a large set,      *)
(*              started from parser states the loop reaches.               *)
(***************************************************************************)
EXTENDS Integers, Sequences, FiniteSets, TLC

VARIABLES
    \* parse_game_text (SpecLine, SpecToken)
    tokens,     \* the tokens of the line the loop has taken so far
    tok,        \* the token of the last iteration, NoTok before the first
    desc,       \* how tok was built (its grammatical parts), NoDesc if raw
    prev,       \* the parser state before the last iteration
    ps,         \* the parser state: the locals of parse_game_text
    \* main and convert_next_game (Spec)
    input,      \* the lines the reader has returned so far
    eof,        \* the reader has reported end of input
    pc,         \* where the run is
    ret,        \* what the last convert_next_game call returned
    eofState,   \* framer state in which the last call met end of input
    callStart,  \* Len(input) when the current call began
    calls,      \* number of convert_next_game calls begun
    game_args,  \* Converter.game_args
    games,      \* Converter.games: records not yet written
    written,    \* the output buffers written so far, in order
    i,          \* main's i
    k,          \* main's k
    max         \* --max

parseVars == <<tokens, tok, desc, prev, ps>>
mainVars == <<input, eof, pc, ret, eofState, callStart, calls, game_args,
              games, written, i, k, max>>
vars == <<tokens, tok, desc, prev, ps, input, eof, pc, ret, eofState,
          callStart, calls, game_args, games, written, i, k, max>>

---------------------------------------------------------------------------
\* Bounds of the model.
MaxLines == 9
MaxBatch == 2
MaxTokens == 4
MaxCoordRun == 7

---------------------------------------------------------------------------
\* Characters and integers.

Digits == <<"0", "1", "2", "3", "4", "5", "6", "7", "8", "9">>
DigitClass == {Digits[n] : n \in 1..10}
DigitVal(c) == (CHOOSE n \in 1..10 : Digits[n] = c) - 1

PieceClass == {"N", "B", "R", "Q", "K"}
CoordClass == {"a", "b", "c", "d", "e", "f", "g", "h",
               "1", "2", "3", "4", "5", "6", "7", "8", "9"}
FileClass == {"a", "b", "c", "d", "e", "f", "g", "h"}
RankClass == {"1", "2", "3", "4", "5", "6", "7", "8"}
CheckClass == {"+", "#"}
NagClass == {"?", "!"}

RECURSIVE BitOr(_, _)
BitOr(a, b) ==
    IF a = 0 THEN b
    ELSE IF b = 0 THEN a
    ELSE (IF a % 2 = 1 \/ b % 2 = 1 THEN 1 ELSE 0)
         + 2 * BitOr(a \div 2, b \div 2)

RECURSIVE Pow2(_)
Pow2(n) == IF n = 0 THEN 1 ELSE 2 * Pow2(n - 1)

\* v << n on a 16-bit word
Shl(v, n) == (v * Pow2(n)) % 65536

\* the number of characters of Class from position p on, at most maxn
RECURSIVE RunLen(_, _, _, _)
RunLen(t, p, Class, maxn) ==
    IF maxn = 0 \/ p > Len(t) \/ t[p] \notin Class THEN 0
    ELSE 1 + RunLen(t, p + 1, Class, maxn - 1)

\* str.parse::<uN>() of a digit string: the value
RECURSIVE DigitsVal(_)
DigitsVal(s) ==
    IF s = <<>> THEN 0
    ELSE 10 * DigitsVal(SubSeq(s, 1, Len(s) - 1)) + DigitVal(s[Len(s)])

---------------------------------------------------------------------------
\* Regular expressions.  A pattern is a sequence of groups, each a character
\* class repeated lo..hi times (hi < 0: no upper limit), greedy: a group
\* takes as many characters as it can and gives them back one by one while
\* the rest of the pattern does not match (the leftmost-first match of the
\* regex crate).  A match is the sequence of the groups' lengths.

Grp(cls, lo, hi) == [cls |-> cls, lo |-> lo, hi |-> hi]
Lit(c) == Grp({c}, 1, 1)
Opt(cls) == Grp(cls, 0, 1)
Many(cls) == Grp(cls, 1, 0 - 1)

Fail == <<0 - 1>>

RECURSIVE MatchFrom(_, _, _, _, _)
RECURSIVE TryLen(_, _, _, _, _, _)
RECURSIVE Pick(_, _, _, _, _, _, _)

\* the groups gi.. of pat matched at position p; toEnd: the pattern ends in $
MatchFrom(t, p, pat, gi, toEnd) ==
    IF gi > Len(pat)
    THEN IF toEnd /\ p # Len(t) + 1 THEN Fail ELSE <<>>
    ELSE TryLen(t, p, pat, gi, toEnd,
                RunLen(t, p, pat[gi].cls,
                       IF pat[gi].hi < 0 THEN Len(t) ELSE pat[gi].hi))

TryLen(t, p, pat, gi, toEnd, n) ==
    IF n < pat[gi].lo THEN Fail
    ELSE Pick(t, p, pat, gi, toEnd, n, MatchFrom(t, p + n, pat, gi + 1, toEnd))

Pick(t, p, pat, gi, toEnd, n, rest) ==
    IF rest # Fail THEN <<n>> \o rest
    ELSE TryLen(t, p, pat, gi, toEnd, n - 1)

\* the leftmost position at or after from where pat matches, 0 if none
RECURSIVE Find(_, _, _)
Find(t, from, pat) ==
    IF from > Len(t) THEN 0
    ELSE IF MatchFrom(t, from, pat, 1, FALSE) # Fail THEN from
    ELSE Find(t, from + 1, pat)

RECURSIVE SumTo(_, _)
SumTo(lens, n) == IF n = 0 THEN 0 ELSE lens[n] + SumTo(lens, n - 1)

\* the text of groups a..b of a match that starts at p
Group(t, p, lens, a, b) ==
    SubSeq(t, p + SumTo(lens, a - 1), p + SumTo(lens, b) - 1)

NoMatch == [ok |-> FALSE]

\* ^([NBRQK]?)([a-h1-9]{0,4})(x?)([a-h1-9]{2})(=?)([NBRQK]?)([+#]?)([?!]{0,2})$
PatMove ==
    <<Opt(PieceClass), Grp(CoordClass, 0, 4), Opt({"x"}), Grp(CoordClass, 2, 2),
      Opt({"="}), Opt(PieceClass), Opt(CheckClass), Grp(NagClass, 0, 2)>>

MoveCaptures(t, lens) ==
    IF lens = Fail THEN NoMatch
    ELSE [ok |-> TRUE,
          piece |-> Group(t, 1, lens, 1, 1),
          dis |-> Group(t, 1, lens, 2, 2),
          cap |-> Group(t, 1, lens, 3, 3),
          dst |-> Group(t, 1, lens, 4, 4),
          eq |-> Group(t, 1, lens, 5, 5),
          pp |-> Group(t, 1, lens, 6, 6),
          chk |-> Group(t, 1, lens, 7, 7),
          nag |-> Group(t, 1, lens, 8, 8)]

RE_MOVE(t) == MoveCaptures(t, MatchFrom(t, 1, PatMove, 1, TRUE))

\* ^([a-h]?)([1-8]?)$
PatCoord == <<Opt(FileClass), Opt(RankClass)>>

CoordCaptures(t, lens) ==
    IF lens = Fail THEN NoMatch
    ELSE [ok |-> TRUE,
          file |-> Group(t, 1, lens, 1, 1),
          rank |-> Group(t, 1, lens, 2, 2)]

RE_COORD(t) == CoordCaptures(t, MatchFrom(t, 1, PatCoord, 1, TRUE))

\* ^(O-O-?O?)([+#]?)([?!]{0,2})$
PatCastling ==
    <<Lit("O"), Lit("-"), Lit("O"), Opt({"-"}), Opt({"O"}),
      Opt(CheckClass), Grp(NagClass, 0, 2)>>

CastlingCaptures(t, lens) ==
    IF lens = Fail THEN NoMatch
    ELSE [ok |-> TRUE,
          side |-> Group(t, 1, lens, 1, 5),
          chk |-> Group(t, 1, lens, 6, 6),
          nag |-> Group(t, 1, lens, 7, 7)]

RE_CASTLING(t) == CastlingCaptures(t, MatchFrom(t, 1, PatCastling, 1, TRUE))

\* (\d+):(\d{2}):(\d{2}), the leftmost match at or after from
PatClk ==
    <<Many(DigitClass), Lit(":"), Grp(DigitClass, 2, 2), Lit(":"),
      Grp(DigitClass, 2, 2)>>

ClkCaptures(t, p, lens) ==
    [ok |-> TRUE,
     h |-> Group(t, p, lens, 1, 1),
     m |-> Group(t, p, lens, 3, 3),
     s |-> Group(t, p, lens, 5, 5),
     end |-> p + SumTo(lens, 5)]

ClkAt(t, p) ==
    IF p = 0 THEN NoMatch
    ELSE ClkCaptures(t, p, MatchFrom(t, p, PatClk, 1, FALSE))

RE_CLK(t, from) == ClkAt(t, Find(t, from, PatClk))

\* (-?\d+\.\d{1,2})
PatAdvantage ==
    <<Opt({"-"}), Many(DigitClass), Lit("."), Grp(DigitClass, 1, 2)>>

AdvantageCaptures(t, p, lens) ==
    [ok |-> TRUE,
     text |-> Group(t, p, lens, 1, 4),
     neg |-> lens[1] = 1,
     int |-> Group(t, p, lens, 2, 2),
     frac |-> Group(t, p, lens, 4, 4),
     end |-> p + SumTo(lens, 4)]

AdvantageAt(t, p) ==
    IF p = 0 THEN NoMatch
    ELSE AdvantageCaptures(t, p, MatchFrom(t, p, PatAdvantage, 1, FALSE))

RE_EVAL_ADVANTAGE(e) == AdvantageAt(e, Find(e, 1, PatAdvantage))

\* #(-?\d+)
PatMate == <<Lit("#"), Opt({"-"}), Many(DigitClass)>>

MateCaptures(t, p, lens) ==
    [ok |-> TRUE,
     text |-> Group(t, p, lens, 1, 3),
     neg |-> lens[2] = 1,
     int |-> Group(t, p, lens, 3, 3),
     end |-> p + SumTo(lens, 3)]

MateAt(t, p) ==
    IF p = 0 THEN NoMatch
    ELSE MateCaptures(t, p, MatchFrom(t, p, PatMate, 1, FALSE))

RE_EVAL_MATE(e) == MateAt(e, Find(e, 1, PatMate))

\* (-?\d+\.\d{1,2}|#-?\d+): at each position the first alternative that
\* matches; the leftmost match at or after from
RECURSIVE FindEval(_, _)
FindEval(t, from) ==
    IF from > Len(t) THEN 0
    ELSE IF \/ MatchFrom(t, from, PatAdvantage, 1, FALSE) # Fail
            \/ MatchFrom(t, from, PatMate, 1, FALSE) # Fail
    THEN from
    ELSE FindEval(t, from + 1)

EvalAt(t, p) ==
    IF p = 0 THEN NoMatch
    ELSE IF MatchFrom(t, p, PatAdvantage, 1, FALSE) # Fail
    THEN AdvantageAt(t, p)
    ELSE MateAt(t, p)

RE_EVAL(t, from) == EvalAt(t, FindEval(t, from))

\* cap[1].parse::<f32>(), kept in hundredths
ParseAdvantage(m) ==
    (IF m.neg THEN 0 - 1 ELSE 1)
    * (100 * DigitsVal(m.int)
       + (IF Len(m.frac) = 1 THEN 10 ELSE 1) * DigitsVal(m.frac))

\* cap[1].parse::<i16>(): the value, out of i16's range where unwrap() panics
ParseMate(m) == (IF m.neg THEN 0 - 1 ELSE 1) * DigitsVal(m.int)

---------------------------------------------------------------------------
\* The match tables of the encoder.  Panic is the value of a panic! arm.

Panic == 0 - 1

FileCode(s) ==
    CASE s = <<>> -> 0
      [] s = <<"a">> -> 1
      [] s = <<"b">> -> 2
      [] s = <<"c">> -> 3
      [] s = <<"d">> -> 4
      [] s = <<"e">> -> 5
      [] s = <<"f">> -> 6
      [] s = <<"g">> -> 7
      [] s = <<"h">> -> 8
      [] OTHER -> Panic

RankCode(s) ==
    CASE s = <<>> -> 0
      [] s = <<"1">> -> 1
      [] s = <<"2">> -> 2
      [] s = <<"3">> -> 3
      [] s = <<"4">> -> 4
      [] s = <<"5">> -> 5
      [] s = <<"6">> -> 6
      [] s = <<"7">> -> 7
      [] s = <<"8">> -> 8
      [] OTHER -> Panic

PieceCode(s) ==
    CASE s = <<>> -> 1
      [] s = <<"N">> -> 2
      [] s = <<"B">> -> 3
      [] s = <<"R">> -> 4
      [] s = <<"Q">> -> 5
      [] s = <<"K">> -> 6
      [] OTHER -> Panic

CaptureCode(s) ==
    CASE s = <<>> -> 0
      [] s = <<"x">> -> 8
      [] OTHER -> Panic

CheckCode(s) ==
    CASE s = <<>> -> 0
      [] s = <<"+">> -> 16
      [] s = <<"#">> -> 32
      [] OTHER -> Panic

NagCode(s) ==
    CASE s = <<>> -> 0
      [] s = <<"!">> -> 64
      [] s = <<"?">> -> 128
      [] s = <<"!", "!">> -> 192
      [] s = <<"?", "?">> -> 256
      [] s = <<"!", "?">> -> 320
      [] s = <<"?", "!">> -> 384
      [] OTHER -> 7

PromotionCode(s) ==
    CASE s = <<>> -> 0
      [] s = <<"N">> -> 1024
      [] s = <<"B">> -> 1536
      [] s = <<"R">> -> 2048
      [] s = <<"Q">> -> 2560
      [] s = <<"K">> -> 3072
      [] OTHER -> Panic

\* the body of `for coord_cap in RE_COORD.captures_iter(..)` for the match
\* m, if there is one: word |= file << fs; word |= rank << rs
CoordOr(word, m, fs, rs) ==
    IF ~m.ok THEN word
    ELSE IF FileCode(m.file) = Panic \/ RankCode(m.rank) = Panic THEN Panic
    ELSE BitOr(BitOr(word, Shl(FileCode(m.file), fs)),
               Shl(RankCode(m.rank), rs))

DisBits(dis) == CoordOr(0, RE_COORD(dis), 0, 4)

\* DestBits with the two shifts exchanged (rank into [8:12), file into
\* [12:16)): the layout C4 fixes tells the two apart
DestBits_Swapped(word, dst) ==
    IF word = Panic THEN Panic ELSE CoordOr(word, RE_COORD(dst), 12, 8)

DestBits(word, dst) ==
    IF word = Panic THEN Panic ELSE CoordOr(word, RE_COORD(dst), 8, 12)

\* move_data of one move
MoveData(dis, dst) == DestBits(DisBits(dis), dst)

\* this_move_metadata of one move
MoveMetadata(piece, cap, chk, nag, pp) ==
    IF \/ PieceCode(piece) = Panic
       \/ CaptureCode(cap) = Panic
       \/ CheckCode(chk) = Panic
       \/ PromotionCode(pp) = Panic
    THEN Panic
    ELSE BitOr(BitOr(BitOr(BitOr(PieceCode(piece), CaptureCode(cap)),
                           CheckCode(chk)), NagCode(nag)), PromotionCode(pp))

---------------------------------------------------------------------------
\* parse_game_text: the locals before the token loop, and one iteration.

InitPS ==
    [in_comment |-> FALSE,
     moves |-> <<>>,
     move_metadata |-> <<>>,
     clk_hours |-> <<>>,
     clk_minutes |-> <<>>,
     clk_seconds |-> <<>>,
     eval_mate_in |-> <<>>,
     eval_advantage |-> <<>>,
     eval_available |-> FALSE,
     panicked |-> FALSE]

\* a panic: the process aborts
Abort(s) == [s EXCEPT !.panicked = TRUE]

\* moves.push(move_data); move_metadata.push(this_move_metadata)
PushMove(s, data, meta) ==
    IF data = Panic \/ meta = Panic THEN Abort(s)
    ELSE [s EXCEPT !.moves = Append(@, data),
                   !.move_metadata = Append(@, meta)]

\* if "{" == token { in_comment = true }  if "}" == token { in_comment = false }
\* InComment comparing the first character only, so that "{e4" opens a
\* comment and "}e4" ends one: C9 tells the two apart
InComment_FirstChar(flag, token) ==
    IF token # <<>> /\ token[1] = "}" THEN FALSE
    ELSE IF token # <<>> /\ token[1] = "{" THEN TRUE
    ELSE flag

InComment(flag, token) ==
    IF token = <<"}">> THEN FALSE
    ELSE IF token = <<"{">> THEN TRUE
    ELSE flag

\* WhiteToMove with the parity inverted: C7 tells the two apart
WhiteToMove_Odd(s) == Len(s.moves) % 2 = 1

\* let white = moves.len() % 2 == 0
WhiteToMove(s) == Len(s.moves) % 2 = 0

\* let kingside = cap[1].len() == 3
Kingside(m) == Len(m.side) = 3

CastlingRank(s) == IF WhiteToMove(s) THEN "1" ELSE "8"

\* the body of the RE_CASTLING loop for the match m
CastlingMove(s, m) ==
    PushMove(s,
             MoveData(<<"e", CastlingRank(s)>>,
                      <<IF Kingside(m) THEN "g" ELSE "c", CastlingRank(s)>>),
             MoveMetadata(<<"K">>, <<>>, m.chk, m.nag, <<>>))

CastlingLoop(s, m) == IF m.ok THEN CastlingMove(s, m) ELSE s

\* assert!(disambiguation_str.len() <= dest_str.len())
AssertDisLen(m) == Len(m.dis) <= Len(m.dst)

\* AssertPromotion without the assertion: C10 tells the two apart
AssertPromotion_Off(m) == TRUE

\* assert!(promotion_piece.len() == promotion_str.len())
AssertPromotion(m) == Len(m.pp) = Len(m.eq)

\* the body of the RE_MOVE loop for the match m
StandardMove(s, m) ==
    IF ~AssertDisLen(m) \/ ~AssertPromotion(m) THEN Abort(s)
    ELSE PushMove(s, MoveData(m.dis, m.dst),
                  MoveMetadata(m.piece, m.cap, m.chk, m.nag, m.pp))

MoveLoop(s, m) ==
    IF s.panicked \/ ~m.ok THEN s ELSE StandardMove(s, m)

\* the branch taken outside a comment: the two loops
MoveGrammar(s, token) ==
    MoveLoop(CastlingLoop(s, RE_CASTLING(token)), RE_MOVE(token))

RECURSIVE EvalLoop(_, _, _)

\* EvalAdvantage without the break, scanning on after an advantage: C11
\* tells the two apart
EvalAdvantage_NoBreak(s, token, m, adv) ==
    IF adv.ok
    THEN EvalLoop([s EXCEPT !.eval_mate_in = Append(@, 0),
                            !.eval_advantage = Append(@, ParseAdvantage(adv))],
                  token, m.end)
    ELSE EvalLoop(s, token, m.end)

\* if let Some(cap) = RE_EVAL_ADVANTAGE.captures(eval) { push; break }
EvalAdvantage(s, token, m, adv) ==
    IF adv.ok
    THEN [s EXCEPT !.eval_mate_in = Append(@, 0),
                   !.eval_advantage = Append(@, ParseAdvantage(adv))]
    ELSE EvalLoop(s, token, m.end)

\* if let Some(cap) = RE_EVAL_MATE.captures(eval) { push }
EvalMate(s, token, m, mate) ==
    IF ~mate.ok THEN EvalAdvantage(s, token, m, RE_EVAL_ADVANTAGE(m.text))
    ELSE IF ParseMate(mate) \notin (0 - 32768)..32767 THEN Abort(s)
    ELSE EvalAdvantage([s EXCEPT !.eval_advantage = Append(@, 0),
                                 !.eval_mate_in = Append(@, ParseMate(mate))],
                       token, m, RE_EVAL_ADVANTAGE(m.text))

EvalBody(s, token, m) ==
    IF ~m.ok THEN s
    ELSE EvalMate([s EXCEPT !.eval_available = TRUE], token, m,
                  RE_EVAL_MATE(m.text))

\* for cap in RE_EVAL.captures_iter(token) { ... }, from position from on
EvalLoop(s, token, from) ==
    IF s.panicked THEN s ELSE EvalBody(s, token, RE_EVAL(token, from))

RECURSIVE ClkLoop(_, _, _)

ClkBody(s, token, m) ==
    IF ~m.ok THEN s
    ELSE IF DigitsVal(m.h) > 255 THEN Abort(s)
    ELSE ClkLoop([s EXCEPT !.clk_hours = Append(@, DigitsVal(m.h)),
                           !.clk_minutes = Append(@, DigitsVal(m.m)),
                           !.clk_seconds = Append(@, DigitsVal(m.s))],
                 token, m.end)

\* for cap in RE_CLK.captures_iter(token) { ... }, from position from on
ClkLoop(s, token, from) ==
    IF s.panicked THEN s ELSE ClkBody(s, token, RE_CLK(token, from))

\* the branch taken inside a comment: the two loops
AnnotationExtractor(s, token) == ClkLoop(EvalLoop(s, token, 1), token, 1)

Dispatch(s, token) ==
    IF ~s.in_comment THEN MoveGrammar(s, token)
    ELSE AnnotationExtractor(s, token)

\* a panic leaves the state as it was before the token, marked panicked
EndToken(s, s1) == IF s1.panicked THEN Abort(s) ELSE s1

\* one iteration of `for token in tokens`
ParseToken(s, token) ==
    EndToken(s, Dispatch([s EXCEPT !.in_comment = InComment(@, token)], token))

\* the token loop over a whole line
RECURSIVE ParseTokens(_, _)
ParseTokens(s, line) ==
    IF line = <<>> \/ s.panicked THEN s
    ELSE ParseTokens(ParseToken(s, Head(line)), Tail(line))

---------------------------------------------------------------------------
\* Lines of the input.  A line is trimmed before it is looked at; it is
\*   [kind |-> "hdr", tag, value]   the text [tag "value"],
\*   [kind |-> "blank"]             nothing but white space,
\*   [kind |-> "text", tokens]      anything else, split on single spaces
\*                                  (first and last token not empty).

HdrLine(tag, value) == [kind |-> "hdr", tag |-> tag, value |-> value]
BlankLine == [kind |-> "blank"]
TextLine(toks) == [kind |-> "text", tokens |-> toks]

\* trimmed.len() > 1 && trimmed.starts_with('[')
IsHeaderLine(line) ==
    \/ line.kind = "hdr"
    \/ /\ line.kind = "text"
       /\ Head(line.tokens)[1] = "["
       /\ (Len(line.tokens) > 1 \/ Len(Head(line.tokens)) > 1)

\* trimmed.is_empty(), line.trim() == ""
IsEmptyLine(line) == line.kind = "blank"

\* game_text.trim().split(' ')
SplitLine(line) ==
    CASE line.kind = "text" -> line.tokens
      [] line.kind = "blank" -> << <<>> >>
      [] line.kind = "hdr" ->
            << <<"[", line.tag>>, <<"\"">> \o line.value \o <<"\"", "]">> >>

---------------------------------------------------------------------------
\* read_header.  A parse is [ok, v]; ok = FALSE is the panic of unwrap().

Err == [ok |-> FALSE, v |-> 0]
Ok(v) == [ok |-> TRUE, v |-> v]

AllDigits(s) == s # <<>> /\ \A n \in 1..Len(s) : s[n] \in DigitClass

\* str.parse::<u8/u16>(): an optional '+', then digits, in range
ParseUnsigned(s, maxv) ==
    LET body == IF s # <<>> /\ s[1] = "+" THEN Tail(s) ELSE s
    IN  IF AllDigits(body) /\ DigitsVal(body) <= maxv
        THEN Ok(DigitsVal(body)) ELSE Err

\* str.parse::<i16>(): an optional sign, then digits, in range
ParseI16(s) ==
    LET signed == s # <<>> /\ s[1] \in {"+", "-"}
        body == IF signed THEN Tail(s) ELSE s
        v == IF signed /\ s[1] = "-" THEN 0 - DigitsVal(body)
             ELSE DigitsVal(body)
    IN  IF AllDigits(body) /\ v >= 0 - 32768 /\ v <= 32767 THEN Ok(v) ELSE Err

\* value.split(c).collect(): the parts of s from position n on, the
\* current part starting at position start
RECURSIVE SplitFrom(_, _, _, _)
SplitFrom(s, c, start, n) ==
    IF n > Len(s) THEN <<SubSeq(s, start, Len(s))>>
    ELSE IF s[n] = c
    THEN <<SubSeq(s, start, n - 1)>> \o SplitFrom(s, c, n + 1, n + 1)
    ELSE SplitFrom(s, c, start, n + 1)

Split(s, c) == SplitFrom(s, c, 1, 1)

\* the byte of an ASCII character (the characters header values use here)
AsciiByte(c) ==
    CASE c = "A" -> 65
      [] c = "B" -> 66
      [] c = "C" -> 67
      [] c = "D" -> 68
      [] c = "E" -> 69
      [] c \in DigitClass -> 48 + DigitVal(c)
      [] OTHER -> 63

ResultCode(v) ==
    CASE v = <<"1", "-", "0">> -> Ok(0)
      [] v = <<"0", "-", "1">> -> Ok(1)
      [] v = <<"1", "/", "2", "-", "1", "/", "2">> -> Ok(2)
      [] v = <<"*">> -> Ok(255)
      [] OTHER -> Err

TerminationCode(v) ==
    CASE v = <<"N", "o", "r", "m", "a", "l">> -> Ok(0)
      [] v = <<"T", "i", "m", "e", " ", "f", "o", "r", "f", "e", "i", "t">>
            -> Ok(1)
      [] v = <<"A", "b", "a", "n", "d", "o", "n", "e", "d">> -> Ok(2)
      [] v = <<"R", "u", "l", "e", "s", " ", "i", "n", "f", "r", "a", "c",
               "t", "i", "o", "n">> -> Ok(3)
      [] v = <<"U", "n", "t", "e", "r", "m", "i", "n", "a", "t", "e", "d">>
            -> Ok(4)
      [] OTHER -> Err

\* an Option<string> that is None; an Option<vector> that is None is kept
\* as the empty vector
NoneStr == <<"None">>
NoneVec == <<>>

\* GameArgs { ..Default::default() }
DefaultGameArgs ==
    [year |-> 0, month |-> 0, day |-> 0,
     time_control_main |-> 0, time_control_increment |-> 0,
     white_rating |-> 0, black_rating |-> 0,
     white_diff |-> 0, black_diff |-> 0,
     eco_category |-> 0, eco_subcategory |-> 0,
     result |-> 0, termination |-> 0,
     site |-> NoneStr, white |-> NoneStr, black |-> NoneStr,
     eval_available |-> FALSE,
     moves |-> NoneVec, move_metadata |-> NoneVec,
     clock_hours |-> NoneVec, clock_minutes |-> NoneVec,
     clock_seconds |-> NoneVec,
     eval_advantage |-> NoneVec, eval_mate_in |-> NoneVec,
     panicked |-> FALSE]

Panicked(ga) == [ga EXCEPT !.panicked = TRUE]

\* the match on field for one capture (field, value) of the header pattern
ReadField(ga, field, value) ==
    CASE field = "UTCDate" ->
            LET parts == Split(value, ".")
                y == ParseUnsigned(parts[1], 65535)
                m == ParseUnsigned(parts[2], 255)
                d == ParseUnsigned(parts[3], 255)
            IN  IF Len(parts) < 3 \/ ~y.ok \/ ~m.ok \/ ~d.ok THEN Panicked(ga)
                ELSE [ga EXCEPT !.year = y.v, !.month = m.v, !.day = d.v]
      [] field = "TimeControl" ->
            LET parts == Split(value, "+")
                main == ParseUnsigned(parts[1], 65535)
                inc == ParseUnsigned(parts[2], 255)
            IN  IF value = <<"-">>
                THEN [ga EXCEPT !.time_control_main = 0,
                                !.time_control_increment = 0]
                ELSE IF Len(parts) < 2 \/ ~main.ok \/ ~inc.ok THEN Panicked(ga)
                ELSE [ga EXCEPT !.time_control_main = main.v,
                                !.time_control_increment = inc.v]
      [] field = "WhiteElo" ->
            LET r == ParseUnsigned(value, 65535)
            IN  IF value = <<"?">> THEN [ga EXCEPT !.white_rating = 0]
                ELSE IF ~r.ok THEN Panicked(ga)
                ELSE [ga EXCEPT !.white_rating = r.v]
      [] field = "BlackElo" ->
            LET r == ParseUnsigned(value, 65535)
            IN  IF value = <<"?">> THEN [ga EXCEPT !.black_rating = 0]
                ELSE IF ~r.ok THEN Panicked(ga)
                ELSE [ga EXCEPT !.black_rating = r.v]
      [] field = "WhiteRatingDiff" ->
            LET r == ParseI16(value)
            IN  IF ~r.ok THEN Panicked(ga) ELSE [ga EXCEPT !.white_diff = r.v]
      [] field = "BlackRatingDiff" ->
            LET r == ParseI16(value)
            IN  IF ~r.ok THEN Panicked(ga) ELSE [ga EXCEPT !.black_diff = r.v]
      [] field = "ECO" ->
            LET sub == ParseUnsigned(Tail(value), 255)
            IN  IF value = <<"?">>
                THEN [ga EXCEPT !.eco_category = 0, !.eco_subcategory = 0]
                ELSE IF value = <<>> \/ ~sub.ok THEN Panicked(ga)
                ELSE [ga EXCEPT !.eco_category = AsciiByte(value[1]),
                                !.eco_subcategory = sub.v]
      [] field = "Result" ->
            LET r == ResultCode(value)
            IN  IF ~r.ok THEN Panicked(ga) ELSE [ga EXCEPT !.result = r.v]
      [] field = "Termination" ->
            LET r == TerminationCode(value)
            IN  IF ~r.ok THEN Panicked(ga) ELSE [ga EXCEPT !.termination = r.v]
      [] field = "Site" -> [ga EXCEPT !.site = value]
      [] field = "White" -> [ga EXCEPT !.white = value]
      [] field = "Black" -> [ga EXCEPT !.black = value]
      [] OTHER -> ga

\* read_header: the header pattern captures (tag, value) in a line of kind
\* "hdr" and nothing in any other line of this model (none holds a quote)
read_header(ga, line) ==
    IF line.kind = "hdr" THEN ReadField(ga, line.tag, line.value) ELSE ga

\* self.game_args.moves = Some(self.builder.create_vector(&moves)) ...;
\* eval_available is only ever set to true, in the RE_EVAL loop
StoreVectors(ga, s) ==
    IF s.panicked THEN Panicked(ga)
    ELSE [ga EXCEPT !.moves = s.moves,
                    !.move_metadata = s.move_metadata,
                    !.clock_hours = s.clk_hours,
                    !.clock_minutes = s.clk_minutes,
                    !.clock_seconds = s.clk_seconds,
                    !.eval_advantage = s.eval_advantage,
                    !.eval_mate_in = s.eval_mate_in,
                    !.eval_available = @ \/ s.eval_available]

\* parse_game_text: the token loop, then the vectors stored in game_args
parse_game_text(ga, line) ==
    StoreVectors(ga, ParseTokens(InitPS, SplitLine(line)))

---------------------------------------------------------------------------
\* The inputs of the model.

Tk_e4 == <<"e", "4">>
Tk_e5 == <<"e", "5">>
Tk_Nf3 == <<"N", "f", "3">>
Tk_e9 == <<"e", "9">>
Tk_OO == <<"O", "-", "O">>
Tk_LBrace == <<"{">>
Tk_RBrace == <<"}">>
Tk_Clk == <<"0", ":", "0", "1", ":", "3", "0", "]">>
Tk_Eval == <<"0", ".", "2", "]">>
Tk_Mate == <<"#", "-", "3", "]">>
Tk_Num == <<"1", ".">>
\* "#3#4,-0.25,1.0]": two mate scores, then two advantages
Tk_EvalRun == <<"#", "3", "#", "4", ",", "-", "0", ".", "2", "5", ",", "1", ".",
                "0", "]">>

\* the lines the reader may return in Spec
LineSet ==
    {HdrLine("WhiteElo", <<"1", "5">>),
     HdrLine("Termination", <<"x">>),
     BlankLine,
     TextLine(<<Tk_Num, Tk_e4, Tk_LBrace, Tk_Clk, Tk_Eval, Tk_RBrace, Tk_e5>>),
     TextLine(<<Tk_Nf3>>)}

---------------------------------------------------------------------------
\* main and convert_next_game, one action per read_line and per turn of
\* main's loop.  I/O errors (the `?` operators) are not modelled.

\* self.reader.read_line(&mut buffer): None at the end of the input, which
\* may come after any line; a line otherwise
AtEof == eof' = TRUE /\ input' = input
Reads(line) ==
    /\ ~eof
    /\ Len(input) < MaxLines
    /\ eof' = eof
    /\ input' = Append(input, line)

\* a panic (assert!, unwrap() or panic!) ends the process
Crash ==
    /\ pc' = "panicked"
    /\ UNCHANGED <<ret, game_args, games, written, i, k>>

\* PushGame putting the record in front: C2 tells the two apart
PushGame_Front(gs, g) == <<g>> \o gs

\* self.games.push(game)
PushGame(gs, g) == Append(gs, g)

\* ResetGameArgs keeping the fields of the game before: C12 tells the two
\* apart
ResetGameArgs_Keep(ga) == ga

\* self.game_args = GameArgs { ..Default::default() }
ResetGameArgs(ga) == DefaultGameArgs

\* the call and the reset of game_args
CallConvert ==
    /\ pc = "call"
    /\ pc' = "ReadingHeaders"
    /\ game_args' = ResetGameArgs(game_args)
    /\ calls' = calls + 1
    /\ callStart' = Len(input)
    /\ ret' = "none"
    /\ eofState' = "none"
    /\ UNCHANGED <<input, eof, games, written, i, k, max>>
    /\ UNCHANGED parseVars

\* the header loop goes on with the fields read_header has set
HeaderRead(ga) ==
    IF ga.panicked THEN Crash
    ELSE /\ game_args' = ga
         /\ UNCHANGED <<pc, ret, games, written, i, k>>

\* one turn of the header loop
ReadHeaderLine ==
    /\ pc = "ReadingHeaders"
    /\ \/ /\ AtEof
          /\ eofState' = "ReadingHeaders"
          /\ ret' = "Ok(false)"
          /\ pc' = "returned"
          /\ UNCHANGED <<game_args, games, written, i, k>>
       \/ \E line \in LineSet :
            /\ Reads(line)
            /\ eofState' = eofState
            /\ IF IsHeaderLine(line)
               THEN HeaderRead(read_header(game_args, line))
               ELSE IF ~IsEmptyLine(line)
                    THEN Crash
                    ELSE /\ pc' = "ReadingMovetext"
                         /\ UNCHANGED <<ret, game_args, games, written, i, k>>
    /\ UNCHANGED <<callStart, calls, max>>
    /\ UNCHANGED parseVars

MovetextParsed(ga) ==
    IF ga.panicked THEN Crash
    ELSE /\ game_args' = ga
         /\ pc' = "ExpectingTrailingBlank"
         /\ UNCHANGED <<ret, games, written, i, k>>

\* let game_text = self.reader.read_line(&mut buffer).unwrap()?;
\* self.parse_game_text(game_text.trim())
ReadMovetext ==
    /\ pc = "ReadingMovetext"
    /\ \/ /\ AtEof
          /\ eofState' = "ReadingMovetext"
          /\ Crash
       \/ \E line \in LineSet :
            /\ Reads(line)
            /\ eofState' = eofState
            /\ MovetextParsed(parse_game_text(game_args, line))
    /\ UNCHANGED <<callStart, calls, max>>
    /\ UNCHANGED parseVars

\* the read of the line after the movetext, and Game::create
ReadTrailingBlank ==
    /\ pc = "ExpectingTrailingBlank"
    /\ \/ /\ AtEof
          /\ eofState' = "ExpectingTrailingBlank"
          /\ ret' = "Ok(false)"
          /\ pc' = "returned"
          /\ UNCHANGED <<game_args, games, written, i, k>>
       \/ \E line \in LineSet :
            /\ Reads(line)
            /\ eofState' = eofState
            /\ IF ~IsEmptyLine(line)
               THEN Crash
               ELSE /\ games' = PushGame(games, game_args)
                    /\ ret' = "Ok(true)"
                    /\ pc' = "returned"
                    /\ UNCHANGED <<game_args, written, i, k>>
    /\ UNCHANGED <<callStart, calls, max>>
    /\ UNCHANGED parseVars

\* save_to_list and the write of file k
WriteBuffer == Append(written, [k |-> k, games |-> games])

\* BatchFull writing only once the count has passed max: C13 tells the two
\* apart
BatchFull_Late(n, m) == n > m

\* if i == max
BatchFull(n, m) == n = m

\* main's loop after Ok(true): i += 1; if i == max { write; i = 0; k += 1 }
MainNextGame ==
    /\ pc = "returned"
    /\ ret = "Ok(true)"
    /\ IF BatchFull(i + 1, max)
       THEN /\ written' = WriteBuffer
            /\ games' = <<>>
            /\ i' = 0
            /\ k' = k + 1
       ELSE /\ i' = i + 1
            /\ UNCHANGED <<written, games, k>>
    /\ pc' = "call"
    /\ UNCHANGED <<input, eof, ret, eofState, callStart, calls, game_args, max>>
    /\ UNCHANGED parseVars

\* main after Ok(false): break; if i > 0 { write }; Ok(())
MainBreak ==
    /\ pc = "returned"
    /\ ret = "Ok(false)"
    /\ IF i > 0
       THEN written' = WriteBuffer /\ games' = <<>>
       ELSE UNCHANGED <<written, games>>
    /\ pc' = "exit"
    /\ UNCHANGED <<input, eof, ret, eofState, callStart, calls, game_args, i, k, max>>
    /\ UNCHANGED parseVars

---------------------------------------------------------------------------
\* Tokens for SpecToken.  A well-formed standard move is drawn as its parts
\* (the codes of the bit layout) and written out as text; the parser sees
\* only the text.

NoTok == <<"no token">>
NoDesc == [kind |-> "raw"]

FileLetter == <<"a", "b", "c", "d", "e", "f", "g", "h">>
RankDigit == <<"1", "2", "3", "4", "5", "6", "7", "8">>
PieceLetter == <<"", "N", "B", "R", "Q", "K">>
NagGlyph == << <<"!">>, <<"?">>, <<"!", "!">>, <<"?", "?">>, <<"!", "?">>,
               <<"?", "!">> >>

StdDesc(piece, df, dr, cap, tf, tr, promo, chk, nag) ==
    [kind |-> "std", piece |-> piece, disFile |-> df, disRank |-> dr,
     capture |-> cap, dstFile |-> tf, dstRank |-> tr, promotion |-> promo,
     check |-> chk, nag |-> nag]

\* every disambiguation and destination, on a plain pawn move
CoordDescs ==
    {StdDesc(1, df, dr, 0, tf, tr, 0, 0, 0) :
        df \in 0..8, dr \in 0..8, tf \in 1..8, tr \in 1..8}

\* every piece, capture, promotion, check and glyph, on a few squares
MetaDescs ==
    {StdDesc(c[1], c[2], c[3], c[4], 4, 7, c[5], c[6], c[7]) :
        c \in (1..6) \X {0, 2} \X {0, 1} \X {0, 1} \X {0, 2, 3, 4, 5, 6}
              \X (0..2) \X (0..6)}

StdDescs == CoordDescs \cup MetaDescs

CastleDescs ==
    {[kind |-> "castle", long |-> l, check |-> c, nag |-> n] :
        l \in BOOLEAN, c \in 0..2, n \in 0..6}

RenderSuffix(chk, nag) ==
    (CASE chk = 0 -> <<>> [] chk = 1 -> <<"+">> [] chk = 2 -> <<"#">>)
    \o (IF nag = 0 THEN <<>> ELSE NagGlyph[nag])

Render(d) ==
    IF d.kind = "castle"
    THEN (IF d.long THEN <<"O", "-", "O", "-", "O">> ELSE <<"O", "-", "O">>)
         \o RenderSuffix(d.check, d.nag)
    ELSE (IF d.piece = 1 THEN <<>> ELSE <<PieceLetter[d.piece]>>)
         \o (IF d.disFile = 0 THEN <<>> ELSE <<FileLetter[d.disFile]>>)
         \o (IF d.disRank = 0 THEN <<>> ELSE <<RankDigit[d.disRank]>>)
         \o (IF d.capture = 1 THEN <<"x">> ELSE <<>>)
         \o <<FileLetter[d.dstFile], RankDigit[d.dstRank]>>
         \o (IF d.promotion = 0 THEN <<>> ELSE <<"=", PieceLetter[d.promotion]>>)
         \o RenderSuffix(d.check, d.nag)

\* all strings of length n over the characters of S
Strings(S, n) == [1..n -> S]

\* runs of coordinate characters, well formed or not, with and without 'x'
\* before the last two
CoordSample == {"a", "1", "9"}
CoordRuns ==
    UNION {Strings(CoordSample, n) : n \in 2..MaxCoordRun}
CoordTokens ==
    CoordRuns \cup
    {SubSeq(r, 1, Len(r) - 2) \o <<"x">> \o SubSeq(r, Len(r) - 1, Len(r)) :
        r \in CoordRuns}

\* promotion markers and pieces that do not go together
PromotionTokens ==
    {p \o <<"e", "8">> \o e \o q \o c :
        p \in {<<>>, <<"N">>, <<"P">>},
        e \in {<<>>, <<"=">>, <<"=", "=">>},
        q \in {<<>>, <<"Q">>, <<"K">>, <<"P">>, <<"q">>},
        c \in {<<>>, <<"+">>}}

\* castling and what looks like it
CastlingTokens ==
    {b \o c \o g :
        b \in {<<"O", "-", "O">>, <<"O", "-", "O", "-", "O">>,
               <<"O", "-", "O", "-">>, <<"O", "-", "O", "O">>,
               <<"O", "-", "O", "-", "O", "-", "O">>,
               <<"O", "-", "O", "-", "O", "O">>,
               <<"0", "-", "0">>, <<"O", "-">>, <<"o", "-", "o">>},
        c \in {<<>>, <<"+">>, <<"#">>, <<"+", "#">>},
        g \in UNION {Strings(NagClass, n) : n \in 0..3}}

\* move numbers, results, braces, annotations and other text
OtherTokens ==
    {Tk_Num, <<"1", ".", ".", ".">>, <<"1", "-", "0">>, <<"0", "-", "1">>,
     <<"1", "/", "2", "-", "1", "/", "2">>, <<"*">>, <<>>,
     Tk_LBrace, Tk_RBrace, <<"{", "e", "4">>, <<"e", "4", "}">>,
     <<"{", "}">>, <<"{", "O", "-", "O">>,
     Tk_Clk, Tk_Eval, Tk_Mate, <<"[", "%", "c", "l", "k">>,
     <<"[", "%", "e", "v", "a", "l">>,
     <<"3", "0", "0", ":", "0", "0", ":", "0", "0">>,
     <<"#", "4", "0", "0", "0", "0">>,
     <<"e", "4", "?", "!", "?">>, <<"e", "4", "+", "+">>,
     <<"e", "x", "x", "d", "5">>, <<"x", "e", "4">>, <<"e">>, <<"4">>}

RawTokens == CoordTokens \cup PromotionTokens \cup CastlingTokens
             \cup OtherTokens

\* the tokens SpecToken starts after: the parser states the token loop is in
\* after 0, 1, 2 and 3 of them
SampleLine == <<Tk_e4, Tk_e5, Tk_LBrace>>

\* the tokens of SpecLine
LineTokens ==
    {Tk_e4, Tk_OO, Tk_e9, Tk_LBrace, Tk_RBrace, Tk_Clk, Tk_Eval, Tk_Mate,
     Tk_EvalRun, <<"{", "e", "4">>, <<"e", "4", "}">>, <<>>}

---------------------------------------------------------------------------
\* The specifications.

MainInit ==
    /\ input = <<>>
    /\ eof = FALSE
    /\ pc = "call"
    /\ ret = "none"
    /\ eofState = "none"
    /\ callStart = 0
    /\ calls = 0
    /\ game_args = DefaultGameArgs
    /\ games = <<>>
    /\ written = <<>>
    /\ i = 0
    /\ k = 0

ParseIdle ==
    /\ tokens = <<>>
    /\ tok = NoTok
    /\ desc = NoDesc
    /\ prev = InitPS
    /\ ps = InitPS

\* the run as parse_game_text is called for the first game's movetext
MainAtMovetext ==
    /\ input = <<BlankLine>>
    /\ eof = FALSE
    /\ pc = "ReadingMovetext"
    /\ ret = "none"
    /\ eofState = "none"
    /\ callStart = 0
    /\ calls = 1
    /\ game_args = DefaultGameArgs
    /\ games = <<>>
    /\ written = <<>>
    /\ i = 0
    /\ k = 0
    /\ max = 1

Init == MainInit /\ max \in 0..MaxBatch /\ ParseIdle

Next ==
    \/ CallConvert
    \/ ReadHeaderLine
    \/ ReadMovetext
    \/ ReadTrailingBlank
    \/ MainNextGame
    \/ MainBreak

Spec == Init /\ [][Next]_vars

\* one iteration of the token loop on token t, built as d
TokenStep(t, d) ==
    /\ ~ps.panicked
    /\ tok' = t
    /\ desc' = d
    /\ prev' = ps
    /\ ps' = ParseToken(ps, t)
    /\ tokens' = Append(tokens, t)
    /\ UNCHANGED mainVars

InitLine == MainAtMovetext /\ ParseIdle

NextToken ==
    /\ Len(tokens) < MaxTokens
    /\ \E t \in LineTokens : TokenStep(t, NoDesc)

SpecLine == InitLine /\ [][NextToken]_vars

InitToken ==
    /\ MainAtMovetext
    /\ \E n \in 0..Len(SampleLine) :
         /\ tokens = SubSeq(SampleLine, 1, n)
         /\ ps = ParseTokens(InitPS, SubSeq(SampleLine, 1, n))
         /\ prev = ps
    /\ tok = NoTok
    /\ desc = NoDesc

ParseStandardToken == tok = NoTok /\ \E d \in StdDescs : TokenStep(Render(d), d)
ParseCastlingToken == tok = NoTok /\ \E d \in CastleDescs : TokenStep(Render(d), d)
ParseRawToken == tok = NoTok /\ \E t \in RawTokens : TokenStep(t, NoDesc)

NextOneToken == ParseStandardToken \/ ParseCastlingToken \/ ParseRawToken

SpecToken == InitToken /\ [][NextOneToken]_vars

---------------------------------------------------------------------------
\* The claims about convert_next_game and main (Spec).

\* the records of the run's output: the buffers written, then the records
\* pushed since the last write
RECURSIVE Flatten(_)
Flatten(bufs) ==
    IF bufs = <<>> THEN <<>> ELSE Head(bufs).games \o Flatten(Tail(bufs))

Written == Flatten(written)
Records == Written \o games

\* the framing the specification describes, read off the lines consumed:
\* a game is zero or more header lines, a blank line, one movetext line, a
\* blank line
RECURSIVE HdrCount(_, _)
HdrCount(lines, n) ==
    IF n < Len(lines) /\ lines[n + 1].kind = "hdr"
    THEN HdrCount(lines, n + 1)
    ELSE n

RECURSIVE HeaderFields(_, _, _)
HeaderFields(ga, lines, h) ==
    IF h = 0 THEN ga
    ELSE read_header(HeaderFields(ga, lines, h - 1), lines[h])

GameRecord(lines, h) ==
    parse_game_text(HeaderFields(DefaultGameArgs, lines, h), lines[h + 2])

WellFormedGame(lines, h) ==
    /\ Len(lines) >= h + 3
    /\ lines[h + 1].kind = "blank"
    /\ lines[h + 2].kind = "text"
    /\ lines[h + 3].kind = "blank"
    /\ ~GameRecord(lines, h).panicked

\* the records of the well-formed games the lines start with, and the lines
\* after them
RECURSIVE Framing(_)
Framing(lines) ==
    LET h == HdrCount(lines, 0)
    IN  IF WellFormedGame(lines, h)
        THEN LET f == Framing(SubSeq(lines, h + 4, Len(lines)))
             IN  [records |-> <<GameRecord(lines, h)>> \o f.records,
                  rest |-> f.rest]
        ELSE [records |-> <<>>, rest |-> lines]

\* the lines are the beginning of one well-formed game, not yet complete
GameOpening(lines) ==
    LET h == HdrCount(lines, 0)
    IN  /\ Len(lines) <= h + 2
        /\ ~HeaderFields(DefaultGameArgs, lines, h).panicked
        /\ Len(lines) > h => lines[h + 1].kind = "blank"
        /\ Len(lines) > h + 1 =>
              /\ lines[h + 2].kind = "text"
              /\ ~GameRecord(lines, h).panicked

\* C1: the end of the input is reported as the clean "no more games" result
\* only when it is met in ReadingHeaders before any line of the next game
\* was read; met anywhere inside a game it is fatal.
C1_CleanEndOnlyBetweenGames ==
    eofState # "none" =>
        IF eofState = "ReadingHeaders" /\ Len(input) = callStart
        THEN pc \in {"returned", "exit"} /\ ret = "Ok(false)"
        ELSE pc = "panicked"

\* C2: on an input of k well-formed games then the end of the input, call n
\* (n <= k) emits record n, in input order and only once the trailing blank
\* line of game n is consumed, and call k+1 returns the clean "no more
\* games" result without a record.
C2_OneRecordPerGame ==
    LET f == Framing(input)
    IN  GameOpening(f.rest) =>
          /\ Records = f.records
          /\ (f.rest = <<>> \/ ~eof) => pc # "panicked"
          /\ (pc = "returned" /\ ret = "Ok(true)") =>
                f.rest = <<>> /\ calls = Len(f.records)
          /\ (eof /\ f.rest = <<>>) =>
                /\ pc \in {"returned", "exit"}
                /\ ret = "Ok(false)"
                /\ eofState = "ReadingHeaders"
                /\ calls = Len(f.records) + 1

\* two different well-formed games, then the end of the input: three calls
C2_TwoGamesThenEnd ==
    /\ pc = "exit"
    /\ eof
    /\ Framing(input).rest = <<>>
    /\ Len(Framing(input).records) = 2
    /\ Records = Framing(input).records
    /\ Records[1] # Records[2]
    /\ calls = 3

\* C3: when a fatal error occurs in game n, the records completed for games
\* 1..n-1 are all in the output written, for every batch size.
C3_CompletedRecordsSurvivePanic ==
    pc = "panicked" => Written = Records

---------------------------------------------------------------------------
\* The claims about one token of the movetext (SpecToken).

\* bits [4n : 4n+4) of a word
Nibble(w, n) == (w \div Pow2(4 * n)) % 16

Last(q) == q[Len(q)]

\* the token of this step went to the move grammar
ToMoveGrammar == tok # NoTok /\ ~prev.in_comment

\* the step appended exactly the words sq and meta, and nothing else changed
Recorded(sq, meta) ==
    ps = [prev EXCEPT !.moves = Append(@, sq),
                      !.move_metadata = Append(@, meta)]

\* the step appended no move
NothingRecorded ==
    /\ ps.moves = prev.moves
    /\ ps.move_metadata = prev.move_metadata

\* the layout of the two words
SquareWord(df, dr, tf, tr) == df + 16 * dr + 256 * tf + 4096 * tr
MetadataWord(piece, cap, chk, nag, promo) ==
    piece + 8 * cap + 16 * chk + 64 * nag + 512 * promo

\* the decoding of a square word: the text of its four components, absent
\* ones decoding to no text
DecodeFile(n) == IF n = 0 THEN <<>> ELSE <<FileLetter[n]>>
DecodeRank(n) == IF n = 0 THEN <<>> ELSE <<RankDigit[n]>>
DecodeSquares(w) ==
    [dis |-> DecodeFile(Nibble(w, 0)) \o DecodeRank(Nibble(w, 1)),
     dst |-> DecodeFile(Nibble(w, 2)) \o DecodeRank(Nibble(w, 3))]

\* C4: a well-formed standard-move token given to the move grammar appends
\* exactly the square word disFile | disRank<<4 | dstFile<<8 | dstRank<<12
\* and the metadata word piece | capture<<3 | check<<4 | annotation<<6 |
\* promotion<<9, and the nibbles of the square word decode to the file and
\* rank components written in the token.
C4_StandardMoveWords ==
    (ToMoveGrammar /\ desc.kind = "std") =>
        /\ ~ps.panicked
        /\ Recorded(SquareWord(desc.disFile, desc.disRank,
                               desc.dstFile, desc.dstRank),
                    MetadataWord(desc.piece, desc.capture, desc.check,
                                 desc.nag, desc.promotion))
        /\ \A n \in 0..3 : Nibble(Last(ps.moves), n) \in 0..8
        /\ DecodeSquares(Last(ps.moves)).dis = RE_MOVE(tok).dis
        /\ DecodeSquares(Last(ps.moves)).dst = RE_MOVE(tok).dst

\* a capture with promotion, mate and a two-character glyph, disambiguated
\* by file, recorded after one move
C4_PromotionCaptureRecorded ==
    /\ ToMoveGrammar
    /\ desc.kind = "std"
    /\ desc.capture = 1
    /\ desc.promotion = 5
    /\ desc.check = 2
    /\ desc.nag = 6
    /\ desc.disFile = 2
    /\ desc.disRank = 0
    /\ Len(prev.moves) = 1
    /\ Len(ps.moves) = 2

\* C5: every move recorded has its destination file nibble (bits [8:12))
\* and its destination rank nibble (bits [12:16)) in 1..8.
C5_DestinationPresent ==
    \A n \in 1..Len(ps.moves) :
        /\ Nibble(ps.moves[n], 2) \in 1..8
        /\ Nibble(ps.moves[n], 3) \in 1..8

\* a character of the coordinate class that is neither a file nor a rank
HasBadCoord(str) ==
    \E n \in 1..Len(str) : str[n] \notin (FileClass \cup RankClass)

\* C6: a token the standard-move pattern accepts whose disambiguation or
\* destination holds a component outside a-h / 1-8 aborts the run, and no
\* move is recorded for it.
C6_BadCoordinateAborts ==
    (/\ ToMoveGrammar
     /\ RE_MOVE(tok).ok
     /\ HasBadCoord(RE_MOVE(tok).dis \o RE_MOVE(tok).dst)) =>
        ps.panicked /\ NothingRecorded

\* bits [4:9) of a metadata word: check and annotation
SuffixBits(meta) == (meta \div 16) % 32

\* the metadata word of the standard move e4 with the suffix of d
SameSuffixOnStandardMove(d) ==
    Last(ParseToken(InitPS,
                    <<"e", "4">> \o RenderSuffix(d.check, d.nag)).move_metadata)

\* C7: a castling token outside a comment appends one King move, e1->g1 or
\* e1->c1 after an even number of moves, e8->g8 or e8->c8 after an odd
\* number, with capture 0 and promotion 0, and its suffix is encoded in the
\* same bits with the same values as on a standard move.
C7_CastlingMove ==
    (ToMoveGrammar /\ desc.kind = "castle") =>
        LET rank == IF Len(prev.moves) % 2 = 0 THEN 1 ELSE 8
            file == IF desc.long THEN 3 ELSE 7
        IN  /\ ~ps.panicked
            /\ Recorded(SquareWord(5, rank, file, rank),
                        MetadataWord(6, 0, desc.check, desc.nag, 0))
            /\ SuffixBits(Last(ps.move_metadata))
                 = SuffixBits(SameSuffixOnStandardMove(desc))

\* O-O-O with mate and a glyph as Black's move
C7_BlackCastlesLong ==
    /\ ToMoveGrammar
    /\ desc.kind = "castle"
    /\ desc.long
    /\ desc.check = 2
    /\ desc.nag = 5
    /\ Len(prev.moves) = 1
    /\ Last(ps.moves) = SquareWord(5, 8, 3, 8)

\* exactly O-O or O-O-O, then an optional '+' or '#', then at most two
\* glyph characters
ExactCastling == {Render(d) : d \in CastleDescs}

\* C8: a token that is not a standard move and is not exactly O-O or O-O-O
\* with its suffix is skipped and leaves moves and move_metadata unchanged.
C8_OnlyExactCastlingRecorded ==
    (tok # NoTok /\ ~RE_MOVE(tok).ok /\ tok \notin ExactCastling) =>
        /\ NothingRecorded
        /\ ~prev.in_comment => ~ps.panicked

\* the coordinate characters of a token
CoordCount(t) == Cardinality({n \in 1..Len(t) : t[n] \in CoordClass})
HasMarker(t) == \E n \in 1..Len(t) : t[n] = "="

\* bits [9:13) of a metadata word
PromotionBits(meta) == (meta \div 512) % 16

\* C10: a token matching the standard pattern with more than four
\* coordinate characters (a disambiguation longer than the destination), or
\* with a promotion piece and no '=' or '=' and no promotion piece, aborts
\* the run and records nothing; every other one is recorded with promotion
\* bits non-zero exactly when the token holds '='.
C10_AssertedInvariants ==
    (ToMoveGrammar /\ RE_MOVE(tok).ok) =>
        IF \/ CoordCount(tok) > 4
           \/ HasMarker(tok) # (RE_MOVE(tok).pp # <<>>)
        THEN ps.panicked /\ NothingRecorded
        ELSE /\ ~ps.panicked
             /\ Len(ps.moves) = Len(prev.moves) + 1
             /\ Len(RE_MOVE(tok).dis) <= 2
             /\ PromotionBits(Last(ps.move_metadata)) # 0 <=> HasMarker(tok)

\* e8Q, a promotion piece without the marker, aborts
C10_PieceWithoutMarkerAborts ==
    /\ ToMoveGrammar
    /\ tok = <<"e", "8", "Q">>
    /\ ps.panicked
    /\ NothingRecorded

---------------------------------------------------------------------------
\* The claim about the tokens of one line (SpecLine).

MovesAdded == ps.moves # prev.moves \/ ps.move_metadata # prev.move_metadata
SamplesAdded ==
    \/ ps.clk_hours # prev.clk_hours
    \/ ps.clk_minutes # prev.clk_minutes
    \/ ps.clk_seconds # prev.clk_seconds
    \/ ps.eval_mate_in # prev.eval_mate_in
    \/ ps.eval_advantage # prev.eval_advantage

\* the last token of ts comes after an exact "{" with no exact "}" from
\* that "{" on, the last token included
InsideSpan(ts) ==
    \E j \in 1..(Len(ts) - 1) :
        /\ ts[j] = Tk_LBrace
        /\ \A m \in (j + 1)..Len(ts) : ts[m] # Tk_RBrace

\* the flag after the tokens ts, as the toggling rule gives it
RECURSIVE FlagAfter(_)
FlagAfter(ts) ==
    IF ts = <<>> THEN FALSE
    ELSE IF Last(ts) = Tk_LBrace THEN TRUE
    ELSE IF Last(ts) = Tk_RBrace THEN FALSE
    ELSE FlagAfter(SubSeq(ts, 1, Len(ts) - 1))

HasBrace(t) == \E n \in 1..Len(t) : t[n] \in {"{", "}"}

\* C9: the flag is false at the start of the line, turns true only on the
\* token "{" and false only on the token "}"; a token adds a move only while
\* the flag is false and a clock or eval sample only while it is true; no
\* token inside a span opened by "{" adds a move, no token outside one adds
\* a sample, and a token that holds a brace among other characters neither
\* toggles the flag nor adds a move.
C9_CommentFlag ==
    /\ ps.in_comment = FlagAfter(tokens)
    /\ tok # NoTok =>
          /\ (ps.in_comment /\ ~prev.in_comment) => tok = Tk_LBrace
          /\ (~ps.in_comment /\ prev.in_comment) => tok = Tk_RBrace
          /\ MovesAdded => ~ps.in_comment
          /\ SamplesAdded => ps.in_comment
          /\ InsideSpan(tokens) => ~MovesAdded
          /\ SamplesAdded => InsideSpan(tokens)
          /\ (HasBrace(tok) /\ tok \notin {Tk_LBrace, Tk_RBrace}) =>
                ps.in_comment = prev.in_comment /\ ~MovesAdded

\* a clock sample inside a comment, then a move after it, and a token with
\* a brace in it that changed nothing
C9_SampleInsideMoveOutside ==
    /\ tokens = <<Tk_LBrace, Tk_Clk, Tk_RBrace, <<"{", "e", "4">> >>
    /\ Len(ps.clk_hours) = 1
    /\ ~ps.in_comment
    /\ ps.moves = <<>>

---------------------------------------------------------------------------
\* The claim about the evaluation samples (SpecLine).

\* the samples this step appended, as pairs <<advantage, mate-in>>
EvalsAdded ==
    [j \in 1..(Len(ps.eval_advantage) - Len(prev.eval_advantage)) |->
        <<ps.eval_advantage[Len(prev.eval_advantage) + j],
          ps.eval_mate_in[Len(prev.eval_mate_in) + j]>>]

\* the samples the evaluation annotations of this model hold, read by hand:
\* advantages in hundredths; "#3#4,-0.25,1.0]" ends at its first advantage
ExpectedEvals(t) ==
    CASE t = Tk_Eval -> << <<20, 0>> >>
      [] t = Tk_Mate -> << <<0, 0 - 3>> >>
      [] t = Tk_EvalRun -> << <<0, 3>>, <<0, 4>>, <<0 - 25, 0>> >>
      [] OTHER -> <<>>

\* C11: inside a comment every evaluation match appends one entry to
\* eval_advantage and one to eval_mate_in, (0, N) for a mate and (a, 0) for
\* an advantage, which ends the scan of its token; outside a comment none is
\* appended; the two sequences have the same length after every token, and
\* eval_available is true exactly when a sample was appended in the game.
C11_EvalSamples ==
    /\ Len(ps.eval_advantage) = Len(ps.eval_mate_in)
    /\ ps.eval_available <=> ps.eval_advantage # <<>>
    /\ tok # NoTok =>
          /\ SubSeq(ps.eval_advantage, 1, Len(prev.eval_advantage))
               = prev.eval_advantage
          /\ SubSeq(ps.eval_mate_in, 1, Len(prev.eval_mate_in))
               = prev.eval_mate_in
          /\ EvalsAdded = (IF ps.in_comment THEN ExpectedEvals(tok) ELSE <<>>)
          /\ \A j \in 1..Len(EvalsAdded) :
                /\ EvalsAdded[j][1] = 0 \/ EvalsAdded[j][2] = 0
                /\ j < Len(EvalsAdded) => EvalsAdded[j][1] = 0

\* two mates and the first advantage of one token, after a sample of an
\* earlier token
C11_MatesThenAdvantage ==
    /\ tokens = <<Tk_LBrace, Tk_Mate, Tk_EvalRun>>
    /\ ps.eval_advantage = <<0, 0, 0, 0 - 25>>
    /\ ps.eval_mate_in = <<0 - 3, 3, 4, 0>>
    /\ ps.eval_available

---------------------------------------------------------------------------
\* The claims about the game boundary and the batches (Spec).

\* the games the lines consumed hold, as convert_next_game frames them:
\* header lines, a blank line, one line of movetext, a blank line
RECURSIVE GamesRead(_)
GamesRead(lines) ==
    LET h == HdrCount(lines, 0)
    IN  IF /\ Len(lines) >= h + 3
           /\ lines[h + 1].kind = "blank"
           /\ lines[h + 3].kind = "blank"
        THEN <<[hdrs |-> SubSeq(lines, 1, h), text |-> lines[h + 2]]>>
             \o GamesRead(SubSeq(lines, h + 4, Len(lines)))
        ELSE <<>>

\* the record of a game computed from its own lines and the defaults
RecordOf(g) ==
    parse_game_text(HeaderFields(DefaultGameArgs, g.hdrs, Len(g.hdrs)), g.text)

RecognizedTags ==
    {"UTCDate", "TimeControl", "WhiteElo", "BlackElo", "WhiteRatingDiff",
     "BlackRatingDiff", "ECO", "Result", "Termination", "Site", "White",
     "Black"}

HasTag(g, tag) == \E n \in 1..Len(g.hdrs) : g.hdrs[n].tag = tag

\* the header fields of a record
HeaderOf(r) ==
    <<r.year, r.month, r.day, r.time_control_main, r.time_control_increment,
      r.white_rating, r.black_rating, r.white_diff, r.black_diff,
      r.eco_category, r.eco_subcategory, r.result, r.termination,
      r.site, r.white, r.black>>

DefaultHeader ==
    <<0, 0, 0, 0, 0, 0, 0, 0, 0, 0, 0, 0, 0, NoneStr, NoneStr, NoneStr>>

HasToken(line, ts) ==
    \E n \in 1..Len(SplitLine(line)) : SplitLine(line)[n] \in ts

\* C12: every call starts from the default fields, and every record is
\* that of its own game's lines alone: a tag, clock or eval absent from a
\* game leaves the default in its record whatever the games before held,
\* and a game without recognized tags has the all-defaults header.
C12_NoStateAcrossGames ==
    /\ (pc = "ReadingHeaders" /\ Len(input) = callStart) =>
          /\ game_args = DefaultGameArgs
          /\ HeaderOf(game_args) = DefaultHeader
          /\ ~game_args.eval_available
    /\ Len(Records) <= Len(GamesRead(input))
    /\ \A n \in 1..Len(Records) :
          /\ Records[n] = RecordOf(GamesRead(input)[n])
          /\ Records[n].white_rating
               = (IF HasTag(GamesRead(input)[n], "WhiteElo") THEN 15 ELSE 0)
          /\ (\A tag \in RecognizedTags : ~HasTag(GamesRead(input)[n], tag))
                => HeaderOf(Records[n]) = DefaultHeader
          /\ ~HasToken(GamesRead(input)[n].text, {Tk_Eval, Tk_Mate, Tk_EvalRun})
                => /\ ~Records[n].eval_available
                   /\ Records[n].eval_advantage = <<>>
                   /\ Records[n].eval_mate_in = <<>>
          /\ ~HasToken(GamesRead(input)[n].text, {Tk_Clk})
                => /\ Records[n].clock_hours = <<>>
                   /\ Records[n].clock_minutes = <<>>
                   /\ Records[n].clock_seconds = <<>>

\* a game with a rating, a clock and an eval, then a game with none of them
C12_DefaultsAfterAnnotatedGame ==
    /\ Len(Records) = 2
    /\ Records[1].white_rating = 15
    /\ Records[1].eval_available
    /\ Records[1].clock_hours # <<>>
    /\ Len(Records[1].moves) = 2
    /\ HeaderOf(Records[2]) = DefaultHeader
    /\ ~Records[2].eval_available
    /\ Records[2].clock_hours = <<>>
    /\ Len(Records[2].moves) = 1

\* the records of the games gs
RecordsOf(gs) == [n \in 1..Len(gs) |-> RecordOf(gs[n])]

\* a game was pushed and main has not yet counted it
Uncounted == IF pc = "returned" /\ ret = "Ok(true)" THEN 1 ELSE 0

\* C13: with max >= 1, the buffers written have the file indices 0, 1, 2,
\* ..., each holds between 1 and max games and each but the last exactly
\* max; the pending list holds only the games emitted since the last write,
\* none right after a write; and when the run has ended cleanly the buffers
\* together hold every emitted game once, in input order.
C13_Batches ==
    max >= 1 =>
        /\ \A j \in 1..Len(written) :
              /\ written[j].k = j - 1
              /\ Len(written[j].games) \in 1..max
              /\ (j < Len(written) \/ pc # "exit") =>
                    Len(written[j].games) = max
        /\ k = (IF pc = "exit" /\ i > 0 THEN Len(written) - 1 ELSE Len(written))
        /\ i \in 0..(max - 1)
        /\ Len(games) = (IF pc = "exit" THEN 0 ELSE i + Uncounted)
        /\ pc = "exit" =>
              /\ Len(Written) = calls - 1
              /\ Written = RecordsOf(GamesRead(input))

\* three games in batches of two: a full buffer 0 and a last buffer 1 with
\* one game
C13_FullBufferThenRest ==
    /\ pc = "exit"
    /\ max = 2
    /\ Len(written) = 2
    /\ Len(written[1].games) = 2
    /\ Len(written[2].games) = 1
    /\ written[2].k = 1
    /\ games = <<>>
    /\ calls = 4

===========================================================================
